---- MODULE Spec2Model ----
(***************************************************************************)
(* Single-head equivalence of definite Horn formulas (reconstruct.py).     *)
(*                                                                         *)
(* A variable is a positive integer.  The literal "v" of the source is the *)
(* integer v and the literal "-v" is the integer -v; a clause is a set of  *)
(* literals and a formula is a set of clauses, as in the source.  A body   *)
(* or a set of heads is a set of variables.                                *)
(***************************************************************************)
EXTENDS Integers, FiniteSets, Sequences, TLC

\* number of propositional variables of the input formulas
NumVars == 3

\* largest number of clauses of an input formula
MaxClauses == 2

Vars == 1 .. NumVars

\* The value reconstruct() returns: None is the empty sequence, a formula g is
\* the one-element sequence <<g>>.
None == <<>>

Some(g) == <<g>>

formulaof(r) == r[1]

\* prev: no earlier run has completed, or an earlier run returned r
NoRun == [ran |-> FALSE, res |-> None]

Ran(r) == [ran |-> TRUE, res |-> r]

\* the element of a one-element set.  the({e : x \in {v}}) is e with x
\* standing for the value of v, which is then computed once.
the(S) == CHOOSE x \in S : TRUE

-----------------------------------------------------------------------------
(* Clause algebra *)

\* tautology(c): some literal l of c has '-' + l in c
tautology(c) == \E l \in c : l > 0 /\ -l \in c

detautologize(s) == {c \in s : ~tautology(c)}

\* head(c): the positive literal of c
head(c) == CHOOSE l \in c : l > 0

heads(f) == {head(c) : c \in f}

\* body(c): the variables of the negative literals of c
body(c) == {-l : l \in {k \in c : k < 0}}

bodies(f) == {body(c) : c \in f}

\* the clause b -> h
mkclause(b, h) == {-l : l \in b} \cup {h}

-----------------------------------------------------------------------------
(* Resolution kernel *)

\* the complementary pairs the double loop of resolve() can stop at
resolvepairs(a, b) == {<<l, -l>> : l \in {k \in a : -k \in b}}

\* resolve(a, b): the resolvent on the first complementary pair found, unless
\* it is a tautology
resolve(a, b) ==
    the({IF prs = {} THEN {}
         ELSE the({IF tautology(r) THEN {} ELSE {r} :
                      r \in {(a \ {the(prs)[1]}) \cup (b \ {the(prs)[2]})}}) :
            prs \in {resolvepairs(a, b)}})

\* minimal with the containment test not strict
minimalnonstrict(s, e) == {c \in s : ~\E d \in s \cup e : d \subseteq c}

\* minimal(s, e): the clauses of s that strictly contain no clause of s | e
minimal(s, e) ==
    the({{c \in t : ~\E d \in t \cup e : d \subseteq c /\ d # c} : t \in {s}})

allresolvents(r) == UNION {resolve(a, b) : a \in r, b \in r}

\* close(s): add all resolvents, minimize, until nothing changes
RECURSIVE closeloop(_)
closeloop(r) ==
    the({IF n = r THEN n ELSE closeloop(n) :
            n \in {minimal(r \cup allresolvents(r), {})}})

close(s) == closeloop(s)

equivalent(s, r) ==
    minimal(close(detautologize(s)), {}) = minimal(close(detautologize(r)), {})

\* number of positive literals of a clause
RECURSIVE poscount(_)
poscount(e) ==
    IF e = {} THEN 0
    ELSE LET c == CHOOSE x \in e : TRUE
         IN  Cardinality({l \in c : l > 0}) + poscount(e \ {c})

\* issinglehead(e): the list of the heads has no repetition
issinglehead(e) == poscount(e) = Cardinality({l \in UNION e : l > 0})

-----------------------------------------------------------------------------
(* rcn and ucl *)

\* one pass of the for loop of rcnucl over the clauses todo
RECURSIVE rcnpass(_, _, _, _)
rcnpass(todo, b, hs, usable) ==
    IF todo = {} THEN <<hs, usable>>
    ELSE the({IF body(c) \subseteq b \cup hs
              THEN rcnpass(todo \ {c}, b, hs \cup {head(c)}, usable \cup {c})
              ELSE rcnpass(todo \ {c}, b, hs, usable) :
                 c \in {CHOOSE x \in todo : TRUE}})

\* the while loop of rcnucl: repeat the pass until heads stops changing
RECURSIVE rcnloop(_, _, _, _)
rcnloop(b, f, hs, usable) ==
    the({IF r[1] = hs THEN r ELSE rcnloop(b, f, r[1], r[2]) :
            r \in {rcnpass(f, b, hs, usable)}})

rcnucl(b, f) ==
    the({<<r[1], minimal(r[2], {})>> : r \in {rcnloop(b, f, {}, {})}})

-----------------------------------------------------------------------------
(* h-closure *)

\* a seed that keeps every clause of usable
seedall(hs, usable) == usable

\* a seed that tests the body in place of the head
seedbybody(hs, usable) == {c \in usable : body(c) \subseteq hs}

\* the seed of hclose: the clauses of usable with head in heads
hcloseseed(hs, usable) == {c \in usable : head(c) \in hs}

\* the resolvents one round of hclose adds
hclosestep(toresolve, usable) ==
    UNION {{n \in resolve(c, u) : head(n) = head(c) /\ ~tautology(n)} :
              c \in toresolve, u \in usable}

RECURSIVE hcloseloop(_, _, _)
hcloseloop(closure, resolved, usable) ==
    the({IF toresolve = {} THEN closure
         ELSE the({hcloseloop(n, r, usable) :
                      n \in {minimal(closure \cup hclosestep(toresolve, usable),
                                     {})},
                      r \in {resolved \cup toresolve}}) :
            toresolve \in {closure \ resolved}})

hclose(hs, usable) ==
    the({hcloseloop(seed, {}, usable) :
            seed \in {minimal(hcloseseed(hs, usable), {})}})

-----------------------------------------------------------------------------
(* Iteration orders.  The source iterates over sets, whose order the language
   leaves open; an order is a sequence listing the set without repetition. *)

RECURSIVE orders(_)
orders(S) ==
    IF S = {} THEN {<<>>}
    ELSE UNION {{<<x>> \o s : s \in orders(S \ {x})} : x \in S}

\* position of x in the sequence s
indexof(s, x) == CHOOSE i \in 1 .. Len(s) : s[i] = x

minof(S) == CHOOSE i \in S : \A j \in S : i <= j

-----------------------------------------------------------------------------
(* Minimal bodies.  minbcl and uclscl are given in their iteration order. *)

\* the clauses bc of minbcl that resolve with c into b
companions(minbcl, b, c) ==
    {i \in 1 .. Len(minbcl) :
        /\ -head(c) \in minbcl[i]
        /\ b = (minbcl[i] \cup c) \ {head(c), -head(c)}}

\* the loop "for c in uclscl" from its j-th clause on; broke tells whether it
\* ended by break
RECURSIVE minbfor(_, _, _, _, _, _, _)
minbfor(j, minbcl, uclscl, b, trace, done, min) ==
    IF j > Len(uclscl)
    THEN [b |-> b, trace |-> trace, done |-> done, broke |-> FALSE]
    ELSE the({
         IF ~(body(uclscl[j]) \subseteq body(b)) \/ cs = {}
         THEN minbfor(j + 1, minbcl, uclscl, b, trace, done, min)
         ELSE the({IF bc \in trace
                   THEN minbfor(j + 1, minbcl, uclscl, b, trace, done, min)
                   ELSE IF bc \in done \/ body(bc) \in min
                   THEN [b |-> b, trace |-> trace, done |-> done,
                         broke |-> TRUE]
                   ELSE minbfor(j + 1, minbcl, uclscl, bc,
                                trace \cup {bc}, done \cup {bc}, min) :
                      bc \in {minbcl[minof(cs)]}}) :
            cs \in {companions(minbcl, b, uclscl[j])}})

\* the loop "while bprev != b"
RECURSIVE minbwhile(_, _, _, _, _, _)
minbwhile(minbcl, uclscl, b, trace, done, min) ==
    the({IF r.broke THEN [done |-> r.done, min |-> min]
         ELSE IF r.b = b THEN [done |-> r.done, min |-> min \cup {body(b)}]
         ELSE minbwhile(minbcl, uclscl, r.b, r.trace, r.done, min) :
            r \in {minbfor(1, minbcl, uclscl, b, trace, done, min)}})

\* the loop "for b in minbcl" from its i-th clause on
RECURSIVE minbouter(_, _, _, _, _)
minbouter(i, minbcl, uclscl, done, min) ==
    IF i > Len(minbcl) THEN min
    ELSE IF minbcl[i] \in done \/ body(minbcl[i]) \in min
         THEN minbouter(i + 1, minbcl, uclscl, done, min)
         ELSE the({minbouter(i + 1, minbcl, uclscl, r.done, r.min) :
                      r \in {minbwhile(minbcl, uclscl, minbcl[i], {minbcl[i]},
                                       done \cup {minbcl[i]}, min)}})

minbodies(minbcl, uclscl) == minbouter(1, minbcl, uclscl, {}, {})

\* what minbodies can return on the sets minbcl and uclscl
minbodiesresults(minbcl, uclscl) ==
    {minbodies(s1, s2) : s1 \in orders(minbcl), s2 \in orders(uclscl)}

-----------------------------------------------------------------------------
(* Input formulas *)

\* the definite Horn clauses over Vars that are not tautologies
AllClauses == UNION {{mkclause(b, h) : b \in SUBSET (Vars \ {h})} : h \in Vars}

\* the definite Horn clauses over Vars, tautologies included
AllClausesTaut == {mkclause(b, h) : b \in SUBSET Vars, h \in Vars}

\* the subsets of S of at most k elements
RECURSIVE subsetsupto(_, _)
subsetsupto(S, k) ==
    IF k = 0 THEN {{}}
    ELSE the({smaller \cup {t \cup {x} : t \in smaller, x \in S} :
                 smaller \in {subsetsupto(S, k - 1)}})

\* further inputs, over the variables a = 1, b = 2, c = 3, d = 4
Extras ==
    { {{-1, 2}, {-2, 1}, {-1, 3}},                          \* a=b a->c
      {{1, -1}, {-1, 2}, {-1, -2, 3}},                      \* a->a a->b ab->c
      {{-1, -2, 3}, {-3, 1}, {-3, 2}},                      \* ab->c c->a c->b
      {{-1, 2}, {-2, 1}, {-2, 3}, {-1, 4}, {-3, 4}},        \* a=b b->c a->d c->d
      {{-1, 2}, {-2, 1}, {-1, 4}, {-3, 4}},                 \* a=b a->d c->d
      {{-1, -2, 3}, {-3, 4}},                               \* ab->c c->d
      {{-1, 2}, {-2, 3}, {-1, -4, 3}},                      \* a->b b->c ad->c
      {{-1, 2}, {-3, 4}, {-1, -4, 3}},                      \* a->b c->d ad->c
      {{-1, -2, 4}, {-3, 4}, {-3, -2, 1}, {-4, 3}},         \* ab->d c->d cb->a d->c
      {{-1, -3, 2}, {-1, -4, -2, 3}, {-3, -2, 1}, {-3, -4, 2}} }
                                                            \* ac->b abd->c bc->a cd->b

Inputs == subsetsupto(AllClauses, MaxClauses) \cup Extras

-----------------------------------------------------------------------------
(* reconstruct(f0) *)

VARIABLES
    f0,             \* the formula passed to reconstruct
    f,              \* f after detautologize and minimal
    rcn, ucl,       \* rcn[b], ucl[b] for every body b of f
    preconditions,  \* bodies still to process
    constructed,    \* the single-head formula under construction
    cbodies,        \* variables in the bodies of constructed
    bodied,         \* heads of constructed
    used,           \* clauses of f used so far
    iterations,     \* number of iterations of the main loop started
    p,              \* the precondition of the current iteration
    pheads,         \* the heads to produce, in the order of the list
    headbodies, pbodies, inbodies, headless, ptarget,
    it,             \* the clauses committed in the current iteration
    allbodies,      \* the variables of their bodies
    result,         \* the returned value, once pc = "done"
    info,           \* the last exit message printed
    prev,           \* the value returned by an earlier run on f0
    pc,             \* position in reconstruct
    fn, arg, out    \* a direct call of rcnucl or hclose: name, arguments, value

vars == <<f0, f, rcn, ucl, preconditions, constructed, cbodies, bodied, used,
          iterations, p, pheads, headbodies, pbodies, inbodies, headless,
          ptarget, it, allbodies, result, info, prev, pc, fn, arg, out>>

\* rcn[t] | t
bcn(t) == rcn[t] \cup t

\* reconstruct(g) up to the main loop
Enter(g) ==
    /\ f0 = g
    /\ f = minimal(detautologize(g), {})
    /\ rcn = [b \in bodies(minimal(detautologize(g), {})) |->
                 rcnucl(b, minimal(detautologize(g), {}))[1]]
    /\ ucl = [b \in bodies(minimal(detautologize(g), {})) |->
                 rcnucl(b, minimal(detautologize(g), {}))[2]]
    /\ preconditions = bodies(minimal(detautologize(g), {}))
    /\ constructed = {}
    /\ cbodies = {}
    /\ bodied = {}
    /\ used = {}
    /\ iterations = 0
    /\ p = {}
    /\ pheads = <<>>
    /\ headbodies = {}
    /\ pbodies = {}
    /\ inbodies = {}
    /\ headless = {}
    /\ ptarget = {}
    /\ it = {}
    /\ allbodies = {}
    /\ result = None
    /\ info = ""
    /\ pc = "loop"

NoCall ==
    /\ fn = "none"
    /\ arg = <<>>
    /\ out = <<>>

Init ==
    /\ \E g \in Inputs : Enter(g)
    /\ prev = NoRun
    /\ NoCall

\* the pass "for t in preconditions" in the order ord, from its i-th element
RECURSIVE selectscan(_, _, _)
selectscan(ord, i, cur) ==
    IF i > Len(ord) THEN cur
    ELSE IF bcn(ord[i]) \subseteq bcn(cur) /\ bcn(ord[i]) # bcn(cur)
         THEN selectscan(ord, i + 1, ord[i])
         ELSE selectscan(ord, i + 1, cur)

\* a selection that takes the first precondition and skips the pass
selectfirst(ord) == ord[1]

\* p = next(iter(preconditions)), then the pass
select(ord) == selectscan(ord, 1, ord[1])

\* while preconditions: find a minimal precondition
Pick ==
    /\ pc = "loop"
    /\ preconditions # {}
    /\ \E ord \in orders(preconditions) : p' = select(ord)
    /\ iterations' = iterations + 1
    /\ pc' = "picked"
    /\ UNCHANGED <<f0, f, rcn, ucl, preconditions, constructed, cbodies, bodied,
                   used, pheads, headbodies, pbodies, inbodies, headless,
                   ptarget, it, allbodies, result, info, prev, fn, arg, out>>

\* a removal that tests t <= rcn[q] only
removedwithin(pre, q) == pre \ {t \in pre : t \subseteq rcn[q]}

\* a removal that drops q only
removedself(pre, q) == pre \ {q}

\* the preconditions left once those within rcn[q] | q are removed
removed(pre, q) == pre \ {t \in pre : t \subseteq bcn(q)}

Remove ==
    /\ pc = "picked"
    /\ preconditions' = removed(preconditions, p)
    /\ pc' = "heads"
    /\ UNCHANGED <<f0, f, rcn, ucl, constructed, cbodies, bodied, used,
                   iterations, p, pheads, headbodies, pbodies, inbodies,
                   headless, ptarget, it, allbodies, result, info, prev,
                   fn, arg, out>>

\* the heads of q, those already produced included
allheads(q) == rcn[q]

\* the heads to produce for the precondition q
headstoproduce(q) == rcn[q] \ bodied

\* maxit without the heads ph themselves
maxitclosed(ph) == rcnucl(p \cup ph, constructed)[1]

\* maxit for the heads ph
maxit(ph) == ph \cup rcnucl(p \cup ph, constructed)[1]

range(s) == {s[i] : i \in 1 .. Len(s)}

Heads ==
    /\ pc = "heads"
    /\ \E ord \in orders(headstoproduce(p)) : pheads' = ord
    /\ IF ~(rcn[p] \subseteq maxit(headstoproduce(p)))
       THEN /\ result' = None
            /\ info' = "insufficient heads"
            /\ pc' = "done"
       ELSE /\ UNCHANGED <<result, info>>
            /\ pc' = "bodies"
    /\ UNCHANGED <<f0, f, rcn, ucl, preconditions, constructed, cbodies, bodied,
                   used, iterations, p, headbodies, pbodies, inbodies, headless,
                   ptarget, it, allbodies, prev, fn, arg, out>>

\* the variables of the bodies of a formula
bodyvars(g) == UNION bodies(g)

\* the variables of headless, those of inbodies included
headlessvars(hb, hl) == bodyvars(hl) \ cbodies

\* the variables of headless that no body can supply
headlessbodies(hb, hl) == (bodyvars(hl) \ cbodies) \ (bodyvars(hb) \ cbodies)

Bodies ==
    /\ pc = "bodies"
    /\ headbodies' = hclose(range(pheads), ucl[p])
    /\ pbodies' \in minbodiesresults(headbodies', ucl[p] \cap used)
    /\ inbodies' = bodyvars(headbodies') \ cbodies
    /\ headless' = hclose(rcn[p] \cap bodied, ucl[p])
    /\ IF headlessbodies(headbodies', headless') # {}
       THEN /\ result' = None
            /\ info' = "unachievable"
            /\ pc' = "done"
            /\ UNCHANGED ptarget
       ELSE /\ ptarget' = headbodies' \cup headless'
            /\ result' = result
            /\ info' = IF ptarget' = {} THEN "empty target" ELSE info
            /\ pc' = IF ptarget' = {} THEN "loop" ELSE "search"
    /\ UNCHANGED <<f0, f, rcn, ucl, preconditions, constructed, cbodies, bodied,
                   used, iterations, p, pheads, it, allbodies, prev,
                   fn, arg, out>>

\* the tuples of itertools.product(pbodies, repeat = len(pheads))
tuples == [1 .. Len(pheads) -> pbodies]

allbodiesof(c) == UNION {c[i] : i \in 1 .. Len(pheads)}

\* the clauses built from zip(pheads, c)
itof(c) == {mkclause(c[i], pheads[i]) : i \in 1 .. Len(pheads)}

\* the loop body without its three validations
acceptedunchecked(c) ==
    /\ inbodies \cup headlessbodies(headbodies, headless) \subseteq allbodiesof(c)
    /\ \A i \in 1 .. Len(pheads) : pheads[i] \notin c[i]

\* whether the loop body reaches its break on the tuple c
accepted(c) ==
    /\ inbodies \cup headlessbodies(headbodies, headless) \subseteq allbodiesof(c)
    /\ \A i \in 1 .. Len(pheads) : pheads[i] \notin c[i]
    /\ \E git \in {rcnucl(p, constructed \cup itof(c))} :
           /\ git[1] = rcn[p]
           /\ \A b \in pbodies : rcnucl(b, constructed \cup itof(c))[1] = rcn[p]
           /\ ptarget = hclose(git[1], git[2])

\* whether c comes before d in the product when pbodies is iterated as ord
RECURSIVE before(_, _, _, _)
before(c, d, ord, i) ==
    IF i > Len(pheads) THEN FALSE
    ELSE IF c[i] = d[i] THEN before(c, d, ord, i + 1)
    ELSE indexof(ord, c[i]) < indexof(ord, d[i])

\* the tuples the for loop can break on: for some order of pbodies, the first
\* accepted tuple of the product
firstaccepted ==
    the({{c \in acc : \E ord \in orders(pbodies) :
                         \A d \in acc \ {c} : before(c, d, ord, 1)} :
            acc \in {{c \in tuples : accepted(c)}}})

Search ==
    /\ pc = "search"
    /\ \E found \in {firstaccepted} :
       IF found = {}
       THEN /\ result' = None
            /\ info' = "exhausted"
            /\ pc' = "done"
            /\ UNCHANGED <<used, bodied, cbodies, constructed, it, allbodies>>
       ELSE \E c \in found :
            /\ it' = itof(c)
            /\ allbodies' = allbodiesof(c)
            /\ used' = used \cup ucl[p]
            /\ bodied' = bodied \cup range(pheads)
            /\ cbodies' = cbodies \cup allbodiesof(c)
            /\ constructed' = constructed \cup itof(c)
            /\ UNCHANGED <<result, info>>
            /\ pc' = "loop"
    /\ UNCHANGED <<f0, f, rcn, ucl, preconditions, iterations, p, pheads,
                   headbodies, pbodies, inbodies, headless, ptarget, prev,
                   fn, arg, out>>

\* the loop ends: return constructed
Return ==
    /\ pc = "loop"
    /\ preconditions = {}
    /\ result' = Some(constructed)
    /\ pc' = "done"
    /\ UNCHANGED <<f0, f, rcn, ucl, preconditions, constructed, cbodies, bodied,
                   used, iterations, p, pheads, headbodies, pbodies, inbodies,
                   headless, ptarget, it, allbodies, info, prev, fn, arg, out>>

\* reconstruct is called again on the same formula; iterations is a global
\* counter of the source, which no call resets
Rerun ==
    /\ pc = "done"
    /\ prev = NoRun
    /\ prev' = Ran(result)
    /\ preconditions' = bodies(f)
    /\ constructed' = {}
    /\ cbodies' = {}
    /\ bodied' = {}
    /\ used' = {}
    /\ p' = {}
    /\ pheads' = <<>>
    /\ headbodies' = {}
    /\ pbodies' = {}
    /\ inbodies' = {}
    /\ headless' = {}
    /\ ptarget' = {}
    /\ it' = {}
    /\ allbodies' = {}
    /\ result' = None
    /\ info' = ""
    /\ pc' = "loop"
    /\ UNCHANGED <<f0, f, rcn, ucl, iterations, fn, arg, out>>

Next == Pick \/ Remove \/ Heads \/ Bodies \/ Search \/ Return

Spec == Init /\ [][Next]_vars

\* the loop is not suspended: a step that can be taken is taken
FairSpec == Spec /\ WF_vars(Next)

NextRerun == Next \/ Rerun

SpecRerun == Init /\ [][NextRerun]_vars

-----------------------------------------------------------------------------
(* rcnucl and hclose called directly, on formulas that need be neither minimal
   nor free of tautologies *)

CallInputs == subsetsupto(AllClausesTaut, MaxClauses)

InitCall ==
    /\ \E g \in CallInputs : Enter(g)
    /\ prev = NoRun
    /\ NoCall

CallRcnucl ==
    /\ fn = "none"
    /\ \E b \in bodies(f0) :
        /\ arg' = <<b, f0>>
        /\ out' = rcnucl(b, f0)
    /\ fn' = "rcnucl"
    /\ UNCHANGED <<f0, f, rcn, ucl, preconditions, constructed, cbodies, bodied,
                   used, iterations, p, pheads, headbodies, pbodies, inbodies,
                   headless, ptarget, it, allbodies, result, info, prev, pc>>

CallHclose ==
    /\ fn = "none"
    /\ \E hs \in SUBSET Vars :
        /\ arg' = <<hs, f0>>
        /\ out' = hclose(hs, f0)
    /\ fn' = "hclose"
    /\ UNCHANGED <<f0, f, rcn, ucl, preconditions, constructed, cbodies, bodied,
                   used, iterations, p, pheads, headbodies, pbodies, inbodies,
                   headless, ptarget, it, allbodies, result, info, prev, pc>>

NextCall == CallRcnucl \/ CallHclose

SpecCall == InitCall /\ [][NextCall]_vars

-----------------------------------------------------------------------------
(* Logical equivalence by truth assignments, and the single-head formulas
   equivalent to a formula *)

varsof(g) == {IF l > 0 THEN l ELSE -l : l \in UNION g}

\* the assignment making exactly the variables of m true satisfies the clause c
satisfies(m, c) == \E l \in c : (l > 0 /\ l \in m) \/ (l < 0 /\ -l \notin m)

modelsof(g, vs) == {m \in SUBSET vs : \A c \in g : satisfies(m, c)}

\* the bodies b over vs such that every assignment of ms satisfies b -> h
entailedbodies(ms, h, vs) ==
    {b \in SUBSET (vs \ {h}) : \A m \in ms : b \subseteq m => h \in m}

\* the single-head formulas with heads among hs made of clauses true in ms
RECURSIVE singleheadwithin(_, _, _)
singleheadwithin(ms, hs, vs) ==
    IF hs = {} THEN {{}}
    ELSE LET h == CHOOSE x \in hs : TRUE
         IN  {g \cup x : g \in singleheadwithin(ms, hs \ {h}, vs),
                         x \in {{}} \cup
                               {{mkclause(b, h)} : b \in entailedbodies(ms, h, vs)}}

\* the single-head formulas over the variables of g with the models of g
singleheadequivalents(g) ==
    {e \in singleheadwithin(modelsof(g, varsof(g)), varsof(g), varsof(g)) :
        modelsof(e, varsof(g)) = modelsof(g, varsof(g))}

\* g is single-head, without tautologies and without clauses containing others
targetform(g) == issinglehead(g) /\ minimal(detautologize(g), {}) = g

\* the variables that depend on v: heads of clauses whose body has v or a
\* variable that depends on v
RECURSIVE dependents(_, _)
dependents(g, S) ==
    LET T == S \cup {head(c) : c \in {d \in g : body(d) \cap S # {}}}
    IN  IF T = S THEN S ELSE dependents(g, T)

acyclic(g) ==
    \A c \in g : body(c) \cap dependents(g, {head(c)}) = {}

\* no variable of a body follows from the rest of the body
irredundant(g) ==
    \A c \in g : \A x \in body(c) : head(c) \notin rcnucl(body(c) \ {x}, g)[1]

-----------------------------------------------------------------------------
(* Claims *)

\* C1: when reconstruct(F) returns a formula G, G is single-head
\* (issinglehead(G)) and equivalent to F (equivalent(G, F), and the same truth
\* assignments satisfy both).
C1_Soundness ==
    (pc = "done" /\ result # None) =>
        /\ issinglehead(formulaof(result))
        /\ equivalent(formulaof(result), f0)
        /\ modelsof(formulaof(result), varsof(f0)) = modelsof(f0, varsof(f0))

C1_Witness ==
    /\ pc = "done"
    /\ result # None
    /\ Cardinality(formulaof(result)) >= 2
    /\ formulaof(result) # f

\* C2: when reconstruct(F) returns None, through any of its three exits, no
\* single-head formula over the variables of F is equivalent to F.
C2_Completeness ==
    (pc = "done" /\ result = None) => singleheadequivalents(f0) = {}

C2_Witness ==
    /\ pc = "done"
    /\ result = None
    /\ info = "exhausted"

\* C3: two runs of reconstruct on the same F, whatever precondition each picks
\* among the minimal ones and in whatever order each enumerates the tuples,
\* both return a formula or both return None, and the formulas returned are
\* equivalent to F.
C3_SameVerdict ==
    (pc = "done" /\ prev.ran) =>
        /\ (prev.res = None) <=> (result = None)
        /\ result # None => equivalent(formulaof(result), f0)
        /\ prev.res # None => equivalent(formulaof(prev.res), f0)

C3_Witness ==
    /\ pc = "done"
    /\ prev.ran
    /\ prev.res # None
    /\ result # None
    /\ result # prev.res

\* C4 as stated: on a formula G that is single-head, without tautologies and
\* without clauses containing others, reconstruct returns G itself.
C4_Identity ==
    (pc = "done" /\ targetform(f0)) => result = Some(f0)

\* C4 amended: on such a G, reconstruct returns a single-head formula
\* equivalent to G; it returns G itself when moreover G is acyclic and no
\* variable of a body of G follows from the rest of that body.
C4_IdentityIrredundant ==
    (pc = "done" /\ targetform(f0)) =>
        /\ result # None
        /\ issinglehead(formulaof(result))
        /\ equivalent(formulaof(result), f0)
        /\ (acyclic(f0) /\ irredundant(f0)) => result = Some(f0)

C4_Witness ==
    /\ pc = "done"
    /\ targetform(f0)
    /\ acyclic(f0)
    /\ irredundant(f0)
    /\ Cardinality(f0) >= 2
    /\ \E c \in f0 : Cardinality(body(c)) >= 2
    /\ result = Some(f0)

\* C5: the constructed formula is single-head at every point of the main loop,
\* bodied is the set of its heads and cbodies the set of the variables of its
\* bodies; every clause committed has its head in rcn[p] - bodied, a head of no
\* clause already constructed.
C5_SingleHeadGrowth ==
    /\ [](/\ issinglehead(constructed)
          /\ bodied = heads(constructed)
          /\ cbodies = bodyvars(constructed))
    /\ [][\A c \in constructed' \ constructed :
              /\ head(c) \in rcn[p] \ bodied
              /\ head(c) \in range(pheads)
              /\ head(c) \notin heads(constructed)]_vars

C5_Witness ==
    /\ pc = "loop"
    /\ iterations >= 2
    /\ it # {}
    /\ constructed \ it # {}
    /\ rcn[p] \cap heads(constructed \ it) # {}

\* C6: for a body b of a formula g, with (heads, usable) = rcnucl(b, g), the
\* heads of rcnucl(b, usable) are heads, also when minimal() removed clauses.
C6_RcnOfUcl ==
    fn = "rcnucl" => rcnucl(arg[1], out[2])[1] = out[1]

C6_Witness ==
    /\ fn = "rcnucl"
    /\ out[1] # {}
    /\ \E c \in arg[2] : body(c) \subseteq arg[1] \cup out[1] /\ c \notin out[2]

\* C7 as stated: for every set of heads and every set of clauses, every clause
\* of hclose has its head among the heads and is not a tautology.
C7_HcloseNoTautology ==
    fn = "hclose" => \A c \in out : head(c) \in arg[1] /\ ~tautology(c)

\* C7 amended: every clause of hclose(H, U) has its head in H, and is not a
\* tautology unless it is a tautology of U; hclose(H, U) has no tautology when
\* U has none.
C7_HcloseHeads ==
    fn = "hclose" =>
        \A c \in out : head(c) \in arg[1] /\ (tautology(c) => c \in arg[2])

C7_Witness ==
    /\ fn = "hclose"
    /\ \A u \in arg[2] : ~tautology(u)
    /\ \E c \in out : c \notin arg[2]
    /\ \E u \in arg[2] : head(u) \notin arg[1]

\* C8: the set of preconditions never grows, the iteration that selects p
\* removes p from it, the loop runs at most as many iterations as f has bodies,
\* and reconstruct returns.
C8_Termination ==
    /\ [](iterations <= Cardinality(bodies(f)))
    /\ [][/\ preconditions' \subseteq preconditions
          /\ pc = "picked" => p \notin preconditions']_vars
    /\ <>(pc = "done")

C8_Witness ==
    /\ pc = "done"
    /\ iterations >= 2
    /\ iterations < Cardinality(bodies(f))

\* C9: once selected, p is minimal: no remaining precondition t has rcn[t] | t
\* strictly inside rcn[p] | p; after the removal no remaining precondition is
\* included in rcn[p] | p.
C9_MinimalPrecondition ==
    /\ pc = "picked" =>
          /\ p \in preconditions
          /\ \A t \in preconditions :
                ~(bcn(t) \subseteq bcn(p) /\ bcn(t) # bcn(p))
    /\ pc \in {"heads", "bodies", "search"} =>
          \A t \in preconditions : ~(t \subseteq bcn(p))

C9_Witness ==
    /\ pc = "picked"
    /\ \E t \in preconditions : bcn(p) \subseteq bcn(t) /\ bcn(p) # bcn(t)
    /\ \E t \in preconditions : t # p /\ ~(bcn(p) \subseteq bcn(t))

\* C10: the target of a selected precondition is never empty: no iteration
\* takes the "empty target" exit.
C10_TargetNotEmpty ==
    /\ info # "empty target"
    /\ pc = "search" => ptarget # {}
    /\ pc = "search" => hclose(range(pheads), ucl[p])
                           \cup hclose(rcn[p] \cap bodied, ucl[p]) # {}

C10_Witness ==
    /\ pc = "search"
    /\ headbodies = {}
    /\ headless # {}

=============================================================================
